---------------------------- MODULE Spec2Model ----------------------------
(***************************************************************************)
(* A model of two parts of the repository:                                 *)
(*                                                                         *)
(*   - the timing instrumentation of gtsam/base/timing.h: the tree of      *)
(*     TimingOutline nodes, the cursor timingCurrent, the scoped timer     *)
(*     AutoTicToc and the macros gttic_, gttoc_, longtic_, longtoc_        *)
(*     (specification Spec; SpecTree drives the tree through longtic_ and  *)
(*     longtoc_ alone, over longer runs);                                  *)
(*   - the rest of the header's interface, each part in a specification  *)
(*     of its own: tictoc_finishedIteration_ (SpecIter), tictoc_print_    *)
(*     and tictoc_print2_ (SpecReport), tictoc_reset_ (SpecReset), the     *)
(*     label registry (SpecRegistry), tictoc_getNode (SpecNode) and the    *)
(*     macros without an underscore under ENABLE_TIMING (SpecToggle);      *)
(*   - the named-vector map of cpp/VectorConfig.cpp (specification SpecVC;*)
(*     SpecVC2 for scale, add and exmap with a flat Vector).               *)
(*                                                                         *)
(* timing.h declares TimingOutline::child, ticInternal, tocInternal, add,  *)
(* finishedIteration, print, print2 and getTicTocID without their bodies;  *)
(* those are modelled from the design document (sections 4.1 to 4.5).      *)
(* AutoTicToc, the macros and the inline functions are modelled from the   *)
(* header itself.                                                          *)
(***************************************************************************)
EXTENDS Integers, Sequences, FiniteSets, TLC

(***************************************************************************)
(* Bounds of the model.                                                    *)
(***************************************************************************)
MaxTics == 2    \* tic's in one run of Spec
MaxTreeTics == 4    \* tic's in one run of SpecTree
MaxClock == 1   \* the clock stops advancing here
MaxDim == 2     \* the longest Vector held by a VectorConfig
MaxIters == 2   \* iteration boundaries in one run
MaxIterClock == 2   \* the clock stops advancing here in a run of SpecIter

Labels == {"A", "B"}    \* the labels of the instrumented call sites
NoNode == 0             \* an empty weak_ptr / shared_ptr
RootIdx == 1            \* the node timingRoot owns

KeyOrder == <<"x", "y">>    \* the keys in use, in the order of std::string
Keys == {KeyOrder[i] : i \in 1..Len(KeyOrder)}
Elems == {0, 1}             \* the values a stored Vector holds
Tols == {0, 1}              \* the tolerances equals() is called with

VARIABLES
  labelIds,       \* the label registry: label i has id i - 1
  nodes,          \* the TimingOutline objects reachable from timingRoot
  timingCurrent,  \* the cursor: an index into nodes, or NoNode
  objs,           \* the live AutoTicToc objects, innermost scope last
  clock,          \* the time source the timers read
  ticCount,       \* history: the tic's so far
  openStack,      \* history: the tic's not yet closed, with the node each opened
  wellNested,     \* history: every toc so far matched the innermost open tic
  hist,           \* history: per node, the elapsed times recorded into it
  lastDead,       \* history: the AutoTicToc destroyed last
  cfgA, cfgB,     \* two VectorConfig objects
  res,            \* the outcome of the last VectorConfig operation
  ENABLE_TIMING,  \* the build defines ENABLE_TIMING
  itMark,         \* history: per node, the recordings before the last boundary
  itVals,         \* history: per node, the accumulator at each boundary so far
  last,           \* the last call of the wider interface, and what it gave
  orderA          \* history: the keys of cfgA in the order they were inserted

timingVars == <<labelIds, nodes, timingCurrent, objs, clock, ticCount,
                openStack, wellNested, hist, lastDead>>
vcVars == <<cfgA, cfgB, res>>
opVars == <<ENABLE_TIMING, itMark, itVals, last, orderA>>
vars == <<labelIds, nodes, timingCurrent, objs, clock, ticCount,
          openStack, wellNested, hist, lastDead, cfgA, cfgB, res,
          ENABLE_TIMING, itMark, itVals, last, orderA>>

(***************************************************************************)
(* Helpers.                                                                *)
(***************************************************************************)
Last(s) == s[Len(s)]
Front(s) == SubSeq(s, 1, Len(s) - 1)

RECURSIVE SumSeq(_)
SumSeq(s) == IF s = <<>> THEN 0 ELSE s[1] + SumSeq(Tail(s))

\* lastDead before any AutoTicToc was destroyed.
NoObj == [live |-> FALSE, tics |-> 0, stops |-> 0, tocs |-> 0, dtorTocs |-> 0]

(***************************************************************************)
(* The label registry (design 4.1): the first call for a label allocates   *)
(* the next sequential id, later calls return the same id.                 *)
(***************************************************************************)
IndexOf(reg, label) == CHOOSE i \in 1..Len(reg) : reg[i] = label

IsRegistered(reg, label) == \E i \in 1..Len(reg) : reg[i] = label

RegisterLabel(reg, label) ==
  IF IsRegistered(reg, label) THEN reg ELSE Append(reg, label)

getTicTocID(reg, label) == IndexOf(RegisterLabel(reg, label), label) - 1

(***************************************************************************)
(* TimingOutline: the fields of timing.h lines 134-156.  timer is the      *)
(* clock reading timer_ holds from the last ticInternal().  The process    *)
(* is taken to be running whenever time passes, so that the CPU time and   *)
(* the wall time that elapse between two readings are the same number.     *)
(***************************************************************************)
TimingOutline(label, myId) ==
  [ myId |-> myId, label |-> label, parent |-> NoNode, children |-> <<>>,
    t |-> 0, tWall |-> 0, t2 |-> 0, tIt |-> 0, tMax |-> 0, tMin |-> 0,
    n |-> 0, myOrder |-> 0, lastChildOrder |-> 0,
    timer |-> 0 ]

\* children_ is a map from child id to node; here a sequence of <<id, node>>.
HasChild(ns, p, id) == \E k \in 1..Len(ns[p].children) : ns[p].children[k][1] = id

ChildOf(ns, p, id) ==
  LET k == CHOOSE k \in 1..Len(ns[p].children) : ns[p].children[k][1] = id
  IN  ns[p].children[k][2]

\* A faulty child(): one node per id for the whole tree, whatever the parent.
child_LabelGlobal(ns, p, id, label) ==
  IF \E c \in 1..Len(ns) : c # RootIdx /\ ns[c].myId = id
  THEN [nodes |-> ns,
        node |-> CHOOSE c \in 1..Len(ns) : c # RootIdx /\ ns[c].myId = id]
  ELSE LET c == Len(ns) + 1
           fresh == [TimingOutline(label, id) EXCEPT
                       !.parent = p, !.myOrder = ns[p].lastChildOrder + 1]
       IN  [nodes |-> Append([ns EXCEPT
                        ![p].children = Append(@, <<id, c>>),
                        ![p].lastChildOrder = @ + 1], fresh),
            node |-> c]

\* TimingOutline::child (design 4.2, open): the existing child of p with that
\* id, or a new one with zero statistics and the next sibling order.
child(ns, p, id, label) ==
  IF HasChild(ns, p, id)
  THEN [nodes |-> ns, node |-> ChildOf(ns, p, id)]
  ELSE LET c == Len(ns) + 1
           fresh == [TimingOutline(label, id) EXCEPT
                       !.parent = p, !.myOrder = ns[p].lastChildOrder + 1]
       IN  [nodes |-> Append([ns EXCEPT
                        ![p].children = Append(@, <<id, c>>),
                        ![p].lastChildOrder = @ + 1], fresh),
            node |-> c]

\* A faulty add(): the cumulative times are overwritten, not accumulated.
add_Overwrite(nd, usecs, usecsWall) ==
  [nd EXCEPT !.t = usecs, !.tWall = usecsWall, !.t2 = @ + usecs * usecs,
             !.tIt = @ + usecs, !.n = @ + 1]

\* TimingOutline::add (design 4.2, record).
add(nd, usecs, usecsWall) ==
  [nd EXCEPT !.t = @ + usecs, !.tWall = @ + usecsWall,
             !.t2 = @ + usecs * usecs, !.tIt = @ + usecs, !.n = @ + 1]

\* TimingOutline::ticInternal(): start the node's timer.
Node_ticInternal(nd) == [nd EXCEPT !.timer = clock]

\* A faulty TimingOutline::tocInternal(): the timer is read as if it had
\* started with the process.
Node_tocInternal_SinceStart(nd) == add(nd, clock, clock)

\* TimingOutline::tocInternal(): the time since the timer started is recorded.
Node_tocInternal(nd) == add(nd, clock - nd.timer, clock - nd.timer)

\* internal::ticInternal(id, label) (design 4.3, tic).
ticInternal(ns, cur, id, label) ==
  LET r == child(ns, cur, id, label)
  IN  [nodes |-> [r.nodes EXCEPT ![r.node] = Node_ticInternal(@)],
       cur |-> r.node]

\* A faulty tocInternal(): the cursor goes back to the root, not to the parent.
tocInternal_ToRoot(ns, cur, id, label) ==
  IF cur = NoNode THEN [nodes |-> ns, cur |-> cur]
  ELSE [nodes |-> [ns EXCEPT ![cur] = Node_tocInternal(@)], cur |-> RootIdx]

\* internal::tocInternal(id, label) (design 4.3, toc): id and label take no
\* part in it.  With an empty cursor there is no node to record into: the
\* dereference is undefined, and no action of the model takes that step
\* (CanToc).
tocInternal(ns, cur, id, label) ==
  IF cur = NoNode THEN [nodes |-> ns, cur |-> cur]
  ELSE [nodes |-> [ns EXCEPT ![cur] = Node_tocInternal(@)],
        cur |-> ns[cur].parent]

(***************************************************************************)
(* AutoTicToc, timing.h lines 171-180.  Each operator gives the object,    *)
(* the tree and the cursor it leaves, and how many times it called         *)
(* ticInternal (tics) or tocInternal (tocs).                               *)
(***************************************************************************)
AutoTicToc_ctor(ns, cur, id, label) ==
  LET r == ticInternal(ns, cur, id, label)
  IN  [obj |-> [id_ |-> id, label_ |-> label, isSet_ |-> TRUE],
       nodes |-> r.nodes, cur |-> r.cur, tics |-> 1]

AutoTicToc_stop(o, ns, cur) ==
  LET r == tocInternal(ns, cur, o.id_, o.label_)
  IN  [obj |-> [o EXCEPT !.isSet_ = FALSE],
       nodes |-> r.nodes, cur |-> r.cur, tocs |-> 1]

\* A faulty destructor: stop() whatever isSet_ says.
AutoTicToc_dtor_Unguarded(o, ns, cur) == AutoTicToc_stop(o, ns, cur)

AutoTicToc_dtor(o, ns, cur) ==
  IF o.isSet_ THEN AutoTicToc_stop(o, ns, cur)
  ELSE [obj |-> o, nodes |-> ns, cur |-> cur, tocs |-> 0]

(***************************************************************************)
(* VectorConfig (cpp/VectorConfig.cpp).  values is an associative          *)
(* container of the standard library keyed by std::string (it is used      *)
(* through find, insert(pair), operator[], begin and end): here a function *)
(* whose domain is the set of keys present.  A loop over values visits     *)
(* the keys in KeyOrder.  An operation that can throw gives a record       *)
(* [kind, ...]: kind "value" with the result, or kind "invalid_argument"   *)
(* with the message of the exception.                                      *)
(***************************************************************************)
Vectors == UNION {[1..n -> Elems] : n \in 0..MaxDim}

EmptyConfig == [k \in {} |-> <<>>]

Value(v) == [kind |-> "value", val |-> v]

Throw(what) == [kind |-> "invalid_argument", what |-> what]

InvalidKey == Throw("VectorConfig::[] invalid key")

DimensionMismatch == Throw("VectorConfig::+ mismatched dimensions")

\* The keys of c in iteration order.
KeysOf(c) == SelectSeq(KeyOrder, LAMBDA k : k \in DOMAIN c)

\* Vector arithmetic, on vectors of one length.
VecAdd(v, w) == [i \in 1..Len(v) |-> v[i] + w[i]]

VecSub(v, w) == [i \in 1..Len(v) |-> v[i] - w[i]]

Abs(x) == IF x < 0 THEN -x ELSE x

\* equal_with_abs_tol of Vector.h (design 6, equals: "every value must match
\* elementwise within tolerance").
equal_with_abs_tol(v, w, tol) ==
  /\ Len(v) = Len(w)
  /\ \A i \in 1..Len(v) : Abs(v[i] - w[i]) <= tol

\* check_size, lines 21-28.
check_size(key, vj, dj) ==
  IF Len(dj) # Len(vj) THEN DimensionMismatch ELSE Value(TRUE)

\* values.insert(std::make_pair(name, val)), lines 39-42: insert of the
\* standard library leaves an element that is already there as it is.
insert(c, name, val) ==
  IF name \in DOMAIN c THEN c
  ELSE [k \in DOMAIN c \cup {name} |-> IF k = name THEN val ELSE c[k]]

\* contains and size of VectorConfig.h.
contains(c, name) == name \in DOMAIN c

size(c) == Cardinality(DOMAIN c)

\* A faulty get: an absent key gives an empty Vector.
get_Default(c, name) ==
  IF name \notin DOMAIN c THEN Value(<<>>) ELSE Value(c[name])

\* get, lines 123-131.
get(c, name) ==
  IF name \notin DOMAIN c THEN InvalidKey ELSE Value(c[name])

\* operator[] const of VectorConfig.h: get (the exception get throws names
\* "VectorConfig::[]").
Index(c, name) == get(c, name)

\* operator+, lines 73-79, from the key at the head of ks on.
RECURSIVE PlusLoop(_, _, _, _)
PlusLoop(a, b, ks, result) ==
  IF ks = <<>> THEN Value(result)
  ELSE LET bk == get(b, Head(ks))
       IN  IF bk.kind # "value" THEN bk
           ELSE PlusLoop(a, b, Tail(ks),
                         insert(result, Head(ks), VecAdd(a[Head(ks)], bk.val)))

\* A faulty operator+: a key b lacks is left out of the result.
Plus_SkipMissing(a, b) ==
  PlusLoop([k \in DOMAIN a \cap DOMAIN b |-> a[k]], b,
           KeysOf([k \in DOMAIN a \cap DOMAIN b |-> a[k]]), EmptyConfig)

Plus(a, b) == PlusLoop(a, b, KeysOf(a), EmptyConfig)

\* operator-, lines 82-88.
RECURSIVE MinusLoop(_, _, _, _)
MinusLoop(a, b, ks, result) ==
  IF ks = <<>> THEN Value(result)
  ELSE LET bk == get(b, Head(ks))
       IN  IF bk.kind # "value" THEN bk
           ELSE MinusLoop(a, b, Tail(ks),
                          insert(result, Head(ks), VecSub(a[Head(ks)], bk.val)))

Minus(a, b) == MinusLoop(a, b, KeysOf(a), EmptyConfig)

\* The loop of operator+ and operator- adds or subtracts two vectors of
\* different lengths before it ends or throws: the sum is not defined.
RECURSIVE SumUndefined(_, _, _)
SumUndefined(a, b, ks) ==
  /\ ks # <<>>
  /\ Head(ks) \in DOMAIN b
  /\ \/ Len(a[Head(ks)]) # Len(b[Head(ks)])
     \/ SumUndefined(a, b, Tail(ks))

\* exmap(const VectorConfig&), lines 91-105.
RECURSIVE exmapLoop(_, _, _, _)
exmapLoop(c, delta, ks, newConfig) ==
  IF ks = <<>> THEN Value(newConfig)
  ELSE LET j == Head(ks)
           vj == c[j]
       IN  IF contains(delta, j)
           THEN LET dj == Index(delta, j).val
                    chk == check_size(j, vj, dj)
                IN  IF chk.kind # "value" THEN chk
                    ELSE exmapLoop(c, delta, Tail(ks),
                                   insert(newConfig, j, VecAdd(vj, dj)))
           ELSE exmapLoop(c, delta, Tail(ks), insert(newConfig, j, vj))

\* A faulty exmap: a key delta lacks is dropped.
exmap_DropUnlisted(c, delta) ==
  exmapLoop([k \in DOMAIN c \cap DOMAIN delta |-> c[k]], delta,
            KeysOf([k \in DOMAIN c \cap DOMAIN delta |-> c[k]]), EmptyConfig)

exmap(c, delta) == exmapLoop(c, delta, KeysOf(c), EmptyConfig)

\* equals, lines 145-156.
RECURSIVE equalsLoop(_, _, _, _)
equalsLoop(c, expected, tol, ks) ==
  IF ks = <<>> THEN Value(TRUE)
  ELSE LET vExpected == Index(expected, Head(ks))
       IN  IF vExpected.kind # "value" THEN vExpected
           ELSE IF ~equal_with_abs_tol(vExpected.val, c[Head(ks)], tol)
                THEN Value(FALSE)
                ELSE equalsLoop(c, expected, tol, Tail(ks))

equals(c, expected, tol) ==
  IF size(c) # size(expected) THEN Value(FALSE)
  ELSE equalsLoop(c, expected, tol, KeysOf(c))

(***************************************************************************)
(* The calls a client makes on two VectorConfig objects, cfgA and cfgB.    *)
(* res holds the last call and what it gave.                               *)
(***************************************************************************)
VCInit ==
  /\ cfgA = EmptyConfig
  /\ cfgB = EmptyConfig
  /\ res = [op |-> "none"]

InsertA(name, val) ==
  /\ cfgA' = insert(cfgA, name, val)
  /\ res' = [op |-> "insert"]
  /\ UNCHANGED <<cfgB, timingVars, opVars>>

InsertB(name, val) ==
  /\ cfgB' = insert(cfgB, name, val)
  /\ res' = [op |-> "insert"]
  /\ UNCHANGED <<cfgA, timingVars, opVars>>

GetA(name) ==
  /\ res' = [op |-> "get", name |-> name, out |-> get(cfgA, name)]
  /\ UNCHANGED <<cfgA, cfgB, timingVars, opVars>>

PlusAB ==
  /\ ~SumUndefined(cfgA, cfgB, KeysOf(cfgA))
  /\ res' = [op |-> "plus", out |-> Plus(cfgA, cfgB)]
  /\ UNCHANGED <<cfgA, cfgB, timingVars, opVars>>

MinusAB ==
  /\ ~SumUndefined(cfgA, cfgB, KeysOf(cfgA))
  /\ res' = [op |-> "minus", out |-> Minus(cfgA, cfgB)]
  /\ UNCHANGED <<cfgA, cfgB, timingVars, opVars>>

ExmapAB ==
  /\ res' = [op |-> "exmap", out |-> exmap(cfgA, cfgB)]
  /\ UNCHANGED <<cfgA, cfgB, timingVars, opVars>>

EqualsAB(tol) ==
  /\ res' = [op |-> "equals", tol |-> tol, out |-> equals(cfgA, cfgB, tol)]
  /\ UNCHANGED <<cfgA, cfgB, timingVars, opVars>>

VCNext ==
  \/ \E name \in Keys, val \in Vectors : InsertA(name, val)
  \/ \E name \in Keys, val \in Vectors : InsertB(name, val)
  \/ \E name \in Keys : GetA(name)
  \/ PlusAB
  \/ MinusAB
  \/ ExmapAB
  \/ \E tol \in Tols : EqualsAB(tol)


(***************************************************************************)
(* VectorConfig: scale, add and exmap with a flat Vector.                  *)
(***************************************************************************)
Scalars == {-1, 0, 2}       \* the factors scale() is called with

VecScale(s, v) == [i \in 1..Len(v) |-> s * v[i]]

\* A faulty scale: the entries are copied as they are.
RECURSIVE scaleLoop_Copy(_, _, _, _)
scaleLoop_Copy(c, s, ks, scaled) ==
  IF ks = <<>> THEN scaled
  ELSE scaleLoop_Copy(c, s, Tail(ks), insert(scaled, Head(ks), c[Head(ks)]))

\* scale, lines 59-65, from the key at the head of ks on.
RECURSIVE scaleLoop(_, _, _, _)
scaleLoop(c, s, ks, scaled) ==
  IF ks = <<>> THEN scaled
  ELSE scaleLoop(c, s, Tail(ks),
                 insert(scaled, Head(ks), VecScale(s, c[Head(ks)])))

scale(c, s) == scaleLoop(c, s, KeysOf(c), EmptyConfig)

\* operator*, lines 68-70.
Times(c, s) == scale(c, s)

\* values[j], line 46: a key that is absent is entered with an empty Vector.
ValuesIndex(c, j) ==
  IF j \in DOMAIN c THEN c
  ELSE [k \in DOMAIN c \cup {j} |-> IF k = j THEN <<>> ELSE c[k]]

\* A faulty add: the sum is taken whatever the stored Vector is.
VectorConfig_add_AlwaysSum(c, j, a) ==
  [ValuesIndex(c, j) EXCEPT ![j] = VecAdd(@, a)]

\* VectorConfig::add, lines 45-48.
VectorConfig_add(c, j, a) ==
  LET c1 == ValuesIndex(c, j)
  IN  IF Len(c1[j]) = 0 THEN [c1 EXCEPT ![j] = a]
      ELSE [c1 EXCEPT ![j] = VecAdd(@, a)]

\* vj += a on vectors of different lengths: not defined.
AddUndefined(c, j, a) ==
  j \in DOMAIN c /\ Len(c[j]) # 0 /\ Len(c[j]) # Len(a)

\* get_names, lines 31-36: the keys in the order values is iterated in.
get_names(c) == KeysOf(c)

\* dim, lines 51-56.
RECURSIVE dimLoop(_, _)
dimLoop(c, ks) == IF ks = <<>> THEN 0 ELSE Len(c[Head(ks)]) + dimLoop(c, Tail(ks))

dim(c) == dimLoop(c, KeysOf(c))

\* sub(delta, i1, i2) of Vector.h: the entries i1 .. i2 - 1, counted from 0.
sub(v, i1, i2) == SubSeq(v, i1 + 1, i2)

\* exmap(const Vector&), lines 108-120, from the key at the head of ks on.
RECURSIVE exmap_VectorLoop(_, _, _, _, _)
exmap_VectorLoop(c, delta, ks, i, newConfig) ==
  IF ks = <<>> THEN newConfig
  ELSE LET j == Head(ks)
           vj == c[j]
           mj == Len(vj)
           dj == sub(delta, i, i + mj)
       IN  exmap_VectorLoop(c, delta, Tail(ks), i + mj,
                            insert(newConfig, j, VecAdd(vj, dj)))

exmap_Vector(c, delta) == exmap_VectorLoop(c, delta, KeysOf(c), 0, EmptyConfig)

\* The flat vectors exmap is called with on c: one entry per dimension.
FlatVectors(c) == [1..dim(c) -> Elems]

\* The calls, on cfgA.  A client inserts under the keys in any order.
InsertOrdA(name, val) ==
  /\ cfgA' = insert(cfgA, name, val)
  /\ orderA' = IF name \in DOMAIN cfgA THEN orderA ELSE Append(orderA, name)
  /\ res' = [op |-> "insert"]
  /\ UNCHANGED <<cfgB, timingVars, ENABLE_TIMING, itMark, itVals, last>>

\* add is called with vectors whose sum is defined and stays in Vectors.
AddA(j, a) ==
  /\ ~AddUndefined(cfgA, j, a)
  /\ VectorConfig_add(cfgA, j, a)[j] \in Vectors
  /\ cfgA' = VectorConfig_add(cfgA, j, a)
  /\ orderA' = IF j \in DOMAIN cfgA THEN orderA ELSE Append(orderA, j)
  /\ res' = [op |-> "add", j |-> j, a |-> a, had |-> j \in DOMAIN cfgA,
             old |-> ValuesIndex(cfgA, j)[j]]
  /\ UNCHANGED <<cfgB, timingVars, ENABLE_TIMING, itMark, itVals, last>>

ScaleA(s) ==
  /\ res' = [op |-> "scale", s |-> s, out |-> scale(cfgA, s)]
  /\ UNCHANGED <<cfgA, cfgB, timingVars, opVars>>

ExmapVectorA(delta) ==
  /\ res' = [op |-> "exmap", delta |-> delta, out |-> exmap_Vector(cfgA, delta)]
  /\ UNCHANGED <<cfgA, cfgB, timingVars, opVars>>

VCNext2 ==
  \/ \E name \in Keys, val \in Vectors : InsertOrdA(name, val)
  \/ \E j \in Keys, a \in Vectors : AddA(j, a)
  \/ \E s \in Scalars : ScaleA(s)
  \/ \E delta \in FlatVectors(cfgA) : ExmapVectorA(delta)

(***************************************************************************)
(* The state after static initialisation.                                  *)
(***************************************************************************)
TimingInit ==
  /\ labelIds = <<"Total">>
  /\ nodes = <<TimingOutline("Total", 0)>>
  /\ timingCurrent = RootIdx
  /\ objs = <<>>
  /\ clock = 0
  /\ ticCount = 0
  /\ openStack = <<>>
  /\ wellNested = TRUE
  /\ hist = <<<<>>>>
  /\ lastDead = NoObj

(***************************************************************************)
(* History bookkeeping for a tic or a toc the client asks for.             *)
(***************************************************************************)
NoteTic(id) ==
  openStack' = IF wellNested
               THEN Append(openStack, [id |-> id, prev |-> timingCurrent,
                                       node |-> timingCurrent'])
               ELSE <<>>

NoteToc(id) ==
  IF wellNested /\ openStack # <<>> /\ Last(openStack).id = id
  THEN openStack' = Front(openStack) /\ wellNested' = TRUE
  ELSE openStack' = <<>> /\ wellNested' = FALSE

\* hist follows the regions the client closes: a new node starts with no
\* recordings; closing the region at node c adds the time since c's timer
\* started.
NoteRecorded(c) ==
  hist' = [k \in 1..Len(nodes') |->
             IF k > Len(nodes) THEN <<>>
             ELSE IF k = c /\ c # NoNode
                  THEN Append(hist[k], clock - nodes[c].timer)
                  ELSE hist[k]]

\* A tic can run: the cursor is a node.  The tic's of a run are bounded, and
\* every other size of the model follows from that bound: a node and an
\* AutoTicToc are made by a tic, and every toc takes the cursor one level up.
CanTic == timingCurrent # NoNode

\* A toc can run: the cursor is a node.
CanToc == timingCurrent # NoNode

(***************************************************************************)
(* The client's operations.                                                *)
(***************************************************************************)
\* gttic_(label), lines 191-193.
Gttic(label) ==
  LET id == getTicTocID(labelIds, label)
      r == AutoTicToc_ctor(nodes, timingCurrent, id, label)
  IN  /\ CanTic
      /\ ticCount < MaxTics
      /\ labelIds' = RegisterLabel(labelIds, label)
      /\ nodes' = r.nodes
      /\ timingCurrent' = r.cur
      /\ objs' = Append(objs, [obj |-> r.obj, tics |-> r.tics, stops |-> 0,
                                tocs |-> 0])
      /\ NoteTic(id)
      /\ NoteRecorded(NoNode)
      /\ ticCount' = ticCount + 1
      /\ UNCHANGED <<clock, wellNested, lastDead, vcVars, opVars>>

\* gttoc_(label), lines 194-195: stop() on a live object.
Gttoc(i) ==
  LET o == objs[i]
      r == AutoTicToc_stop(o.obj, nodes, timingCurrent)
  IN  /\ CanToc
      /\ nodes' = r.nodes
      /\ timingCurrent' = r.cur
      /\ objs' = [objs EXCEPT ![i] = [obj |-> r.obj, tics |-> o.tics,
                                      stops |-> o.stops + 1,
                                      tocs |-> o.tocs + r.tocs]]
      /\ NoteToc(o.obj.id_)
      /\ NoteRecorded(timingCurrent)
      /\ UNCHANGED <<labelIds, clock, ticCount, lastDead, vcVars, opVars>>

\* The innermost scope ends (by any exit path): its object is destroyed.
ScopeExit ==
  /\ objs # <<>>
  /\ LET o == Last(objs)
         r == AutoTicToc_dtor(o.obj, nodes, timingCurrent)
     IN  /\ r.tocs > 0 => CanToc
         /\ nodes' = r.nodes
         /\ timingCurrent' = r.cur
         /\ objs' = Front(objs)
         /\ lastDead' = [live |-> TRUE, tics |-> o.tics, stops |-> o.stops,
                         tocs |-> o.tocs + r.tocs, dtorTocs |-> r.tocs]
         /\ IF o.obj.isSet_ THEN NoteToc(o.obj.id_)
            ELSE UNCHANGED <<openStack, wellNested>>
         /\ NoteRecorded(IF o.obj.isSet_ THEN timingCurrent ELSE NoNode)
  /\ UNCHANGED <<labelIds, clock, ticCount, vcVars, opVars>>

\* longtic_(label), lines 196-198.
longtic_(label) ==
  LET id == getTicTocID(labelIds, label)
      r == ticInternal(nodes, timingCurrent, id, label)
  IN  /\ CanTic
      /\ labelIds' = RegisterLabel(labelIds, label)
      /\ nodes' = r.nodes
      /\ timingCurrent' = r.cur
      /\ NoteTic(id)
      /\ NoteRecorded(NoNode)
      /\ ticCount' = ticCount + 1
      /\ UNCHANGED <<objs, clock, wellNested, lastDead, vcVars, opVars>>

Longtic(label) == ticCount < MaxTics /\ longtic_(label)

TreeTic(label) == ticCount < MaxTreeTics /\ longtic_(label)

\* longtoc_(label), lines 199-201.
Longtoc(label) ==
  LET id == getTicTocID(labelIds, label)
      r == tocInternal(nodes, timingCurrent, id, label)
  IN  /\ CanToc
      /\ labelIds' = RegisterLabel(labelIds, label)
      /\ nodes' = r.nodes
      /\ timingCurrent' = r.cur
      /\ NoteToc(id)
      /\ NoteRecorded(timingCurrent)
      /\ UNCHANGED <<objs, clock, ticCount, lastDead, vcVars, opVars>>

\* Time passes.
Tick ==
  /\ clock < MaxClock
  /\ clock' = clock + 1
  /\ UNCHANGED <<labelIds, nodes, timingCurrent, objs, ticCount, openStack,
                 wellNested, hist, lastDead, vcVars, opVars>>

\* The wider interface before its first call.  Spec, SpecTree and SpecVC use
\* the macros with an underscore alone, which are the same in every build:
\* they are explored for the build that leaves ENABLE_TIMING undefined.
OpInit ==
  /\ itMark = <<>>
  /\ itVals = <<>>
  /\ last = [op |-> "none"]
  /\ orderA = <<>>

Init == TimingInit /\ VCInit /\ OpInit /\ ENABLE_TIMING = FALSE

Next ==
  \/ \E label \in Labels : Gttic(label)
  \/ \E i \in 1..Len(objs) : Gttoc(i)
  \/ ScopeExit
  \/ \E label \in Labels : Longtic(label)
  \/ \E label \in Labels : Longtoc(label)
  \/ Tick

Spec == Init /\ [][Next]_vars

\* The tree under longtic_ and longtoc_ alone.
NextTree ==
  \/ \E label \in Labels : TreeTic(label)
  \/ \E label \in Labels : Longtoc(label)
  \/ Tick

SpecTree == Init /\ [][NextTree]_vars

SpecVC == Init /\ [][VCNext]_vars

SpecVC2 == Init /\ [][VCNext2]_vars

(***************************************************************************)
(* Iterations.  TimingOutline::finishedIteration is declared at line 166   *)
(* of timing.h without its body; it is modelled from design 4.2: the node  *)
(* compares its accumulator tIt with the recorded maximum and minimum,     *)
(* which the first boundary of the node initialises, sets tIt to zero and  *)
(* then does the same in every child.  The header has no field that says   *)
(* whether a node has been through a boundary: the model takes it from     *)
(* the history (IterSeen).                                                 *)
(***************************************************************************)
ItValsOf(c) == IF c <= Len(itVals) THEN itVals[c] ELSE <<>>

ItMarkOf(c) == IF c <= Len(itMark) THEN itMark[c] ELSE 0

\* The nodes that have been through a boundary.
IterSeen == {c \in 1..Len(itVals) : itVals[c] # <<>>}

\* History: what was recorded into node c since its last boundary.
IterAccum(c) == SumSeq(SubSeq(hist[c], ItMarkOf(c) + 1, Len(hist[c])))

Max2(x, y) == IF x > y THEN x ELSE y

Min2(x, y) == IF x < y THEN x ELSE y

Node_finishedIteration(nd, first) ==
  [nd EXCEPT !.tMax = IF first THEN nd.tIt ELSE Max2(@, nd.tIt),
             !.tMin = IF first THEN nd.tIt ELSE Min2(@, nd.tIt),
             !.tIt = 0]

RECURSIVE finishedIteration(_, _, _)
RECURSIVE finishedChildren(_, _, _, _)
finishedIteration(ns, c, seen) ==
  LET ns1 == [ns EXCEPT ![c] = Node_finishedIteration(@, c \notin seen)]
  IN  finishedChildren(ns1, ns1[c].children, 1, seen)

finishedChildren(ns, ch, k, seen) ==
  IF k > Len(ch) THEN ns
  ELSE finishedChildren(finishedIteration(ns, ch[k][2], seen), ch, k + 1, seen)

\* A faulty tictoc_finishedIteration_: from the cursor, not from the root.
tictoc_finishedIteration_AtCursor ==
  IF timingCurrent = NoNode THEN nodes
  ELSE finishedIteration(nodes, timingCurrent, IterSeen)

\* tictoc_finishedIteration_(), lines 202-203: the tree it leaves.
tictoc_finishedIteration_ == finishedIteration(nodes, RootIdx, IterSeen)

\* History of a boundary: every node's accumulator is noted, and a new
\* iteration starts.
NoteBoundary ==
  /\ itVals' = [c \in 1..Len(nodes) |-> Append(ItValsOf(c), IterAccum(c))]
  /\ itMark' = [c \in 1..Len(nodes) |-> Len(hist[c])]

\* A call of tictoc_finishedIteration_().
FinishedIteration ==
  /\ Len(ItValsOf(RootIdx)) < MaxIters
  /\ nodes' = tictoc_finishedIteration_
  /\ NoteBoundary
  /\ last' = [op |-> "tictoc_finishedIteration_"]
  /\ UNCHANGED <<labelIds, timingCurrent, objs, clock, ticCount, openStack,
                 wellNested, hist, lastDead, vcVars, ENABLE_TIMING, orderA>>

\* longtic_ and longtoc_ in a run of SpecIter.  The label of a toc takes no
\* part in what tocInternal records: one label stands for all.
IterTic(label) ==
  /\ ticCount < MaxTics
  /\ longtic_(label)

IterToc == Longtoc("A")

\* Time passes, in a run of SpecIter.
IterTick ==
  /\ clock < MaxIterClock
  /\ clock' = clock + 1
  /\ UNCHANGED <<labelIds, nodes, timingCurrent, objs, ticCount, openStack,
                 wellNested, hist, lastDead, vcVars, opVars>>

NextIter ==
  \/ \E label \in Labels : IterTic(label)
  \/ IterToc
  \/ IterTick
  \/ FinishedIteration

SpecIter == Init /\ [][NextIter]_vars

(***************************************************************************)
(* Reporting, lookup and reset.  TimingOutline::print and print2 are       *)
(* declared const at lines 161-162 without their bodies; what they write   *)
(* is modelled from design 4.5: one line per node, depth first from the    *)
(* node they are called on, the children in creation order.                *)
(***************************************************************************)
RECURSIVE print(_, _, _)
RECURSIVE printChildren(_, _, _, _)
print(ns, c, outline) ==
  <<[outline |-> outline, label |-> ns[c].label, n |-> ns[c].n,
     t |-> ns[c].t, tWall |-> ns[c].tWall]>>
    \o printChildren(ns, ns[c].children, 1, outline + 1)

printChildren(ns, ch, k, outline) ==
  IF k > Len(ch) THEN <<>>
  ELSE print(ns, ch[k][2], outline) \o printChildren(ns, ch, k + 1, outline)

\* print2 writes the mean and what the standard deviation is derived from.
RECURSIVE print2(_, _, _)
RECURSIVE print2Children(_, _, _, _)
print2(ns, c, outline) ==
  <<[outline |-> outline, label |-> ns[c].label, n |-> ns[c].n,
     mean |-> IF ns[c].n = 0 THEN 0 ELSE ns[c].t \div ns[c].n,
     t2 |-> ns[c].t2]>>
    \o print2Children(ns, ns[c].children, 1, outline + 1)

print2Children(ns, ch, k, outline) ==
  IF k > Len(ch) THEN <<>>
  ELSE print2(ns, ch[k][2], outline) \o print2Children(ns, ch, k + 1, outline)

\* A faulty tictoc_print_: the report also ends the iteration.
tictoc_print_Finishing ==
  [nodes |-> finishedIteration(nodes, RootIdx, IterSeen),
   out |-> print(nodes, RootIdx, 0)]

\* tictoc_print_(), lines 204-205: print() const on the root.  The tree it
\* leaves and what it writes.
tictoc_print_ == [nodes |-> nodes, out |-> print(nodes, RootIdx, 0)]

\* tictoc_print2_(), lines 207-208.
tictoc_print2_ == [nodes |-> nodes, out |-> print2(nodes, RootIdx, 0)]

\* A faulty tictoc_reset_: the cursor is not set to the new root, and it
\* expires with the node it referred to.
tictoc_reset_KeepCursor(reg) ==
  [labelIds |-> RegisterLabel(reg, "Total"),
   nodes |-> <<TimingOutline("Total", getTicTocID(reg, "Total"))>>,
   cur |-> NoNode]

\* A faulty reset: the registry starts again with the tree.
tictoc_reset_ForgetsLabels(reg) ==
  [labelIds |-> <<"Total">>,
   nodes |-> <<TimingOutline("Total", 0)>>,
   cur |-> RootIdx]

\* tictoc_reset_(), lines 213-215: timingRoot gives up the old tree, whose
\* nodes are destroyed, for a new TimingOutline, and the cursor is the new
\* root.
tictoc_reset_(reg) ==
  [labelIds |-> RegisterLabel(reg, "Total"),
   nodes |-> <<TimingOutline("Total", getTicTocID(reg, "Total"))>>,
   cur |-> RootIdx]

\* A faulty tictoc_getNode: the lookup is a tic.
tictoc_getNode_Tic(reg, ns, cur, label) ==
  LET r == ticInternal(ns, cur, getTicTocID(reg, label), label)
  IN  [labelIds |-> RegisterLabel(reg, label), nodes |-> r.nodes,
       cur |-> r.cur, variable |-> r.cur]

\* tictoc_getNode(variable, label), lines 209-212.
tictoc_getNode(reg, ns, cur, label) ==
  LET r == child(ns, cur, getTicTocID(reg, label), label)
  IN  [labelIds |-> RegisterLabel(reg, label), nodes |-> r.nodes,
       cur |-> cur, variable |-> r.node]

\* The calls.  last keeps how many lines a report wrote.
TictocPrint ==
  /\ nodes' = tictoc_print_.nodes
  /\ last' = [op |-> "tictoc_print_", lines |-> Len(tictoc_print_.out)]
  /\ UNCHANGED <<labelIds, timingCurrent, objs, clock, ticCount, openStack,
                 wellNested, hist, lastDead, vcVars, ENABLE_TIMING, itMark,
                 itVals, orderA>>

TictocPrint2 ==
  /\ nodes' = tictoc_print2_.nodes
  /\ last' = [op |-> "tictoc_print2_", lines |-> Len(tictoc_print2_.out)]
  /\ UNCHANGED <<labelIds, timingCurrent, objs, clock, ticCount, openStack,
                 wellNested, hist, lastDead, vcVars, ENABLE_TIMING, itMark,
                 itVals, orderA>>

\* The history starts again with the new tree; a region that was open has
\* no node to close in it.
TictocReset ==
  LET r == tictoc_reset_(labelIds)
  IN  /\ labelIds' = r.labelIds
      /\ nodes' = r.nodes
      /\ timingCurrent' = r.cur
      /\ hist' = <<<<>>>>
      /\ itMark' = <<>>
      /\ itVals' = <<>>
      /\ wellNested' = (wellNested /\ openStack = <<>>)
      /\ openStack' = <<>>
      /\ last' = [op |-> "tictoc_reset_", discarded |-> Len(nodes) - 1,
                  lost |-> SumSeq([c \in 1..Len(nodes) |-> nodes[c].t])]
      /\ UNCHANGED <<objs, clock, ticCount, lastDead, vcVars, ENABLE_TIMING,
                     orderA>>

\* The lookup dereferences the cursor: it is called with a cursor that is
\* a node.
GetNode(label) ==
  LET r == tictoc_getNode(labelIds, nodes, timingCurrent, label)
  IN  /\ timingCurrent # NoNode
      /\ labelIds' = r.labelIds
      /\ nodes' = r.nodes
      /\ timingCurrent' = r.cur
      /\ NoteRecorded(NoNode)
      /\ last' = [op |-> "tictoc_getNode", label |-> label,
                  variable |-> r.variable]
      /\ UNCHANGED <<objs, clock, ticCount, openStack, wellNested, lastDead,
                     vcVars, ENABLE_TIMING, itMark, itVals, orderA>>

\* Tic, toc, the end of the first iteration and the reports.
NextReport ==
  \/ \E label \in Labels : Longtic(label)
  \/ \E label \in Labels : Longtoc(label)
  \/ Tick
  \/ ItValsOf(RootIdx) = <<>> /\ FinishedIteration
  \/ TictocPrint
  \/ TictocPrint2

SpecReport == Init /\ [][NextReport]_vars

\* Tic, toc and reset.
NextReset ==
  \/ \E label \in Labels : Longtic(label)
  \/ \E label \in Labels : Longtoc(label)
  \/ Tick
  \/ TictocReset

SpecReset == Init /\ [][NextReset]_vars

\* Every operation that reaches the registry or follows a reset: tic, toc,
\* lookup, the end of the first iteration, report and reset.
NextRegistry ==
  \/ \E label \in Labels : IterTic(label)
  \/ \E label \in Labels : Longtoc(label)
  \/ GetNode("B")
  \/ ItValsOf(RootIdx) = <<>> /\ FinishedIteration
  \/ TictocPrint
  \/ TictocReset

SpecRegistry == Init /\ [][NextRegistry]_vars

\* Tic, toc and the lookup of a node.
NextNode ==
  \/ \E label \in Labels : Longtic(label)
  \/ Longtoc("A")
  \/ Tick
  \/ GetNode("A")

SpecNode == Init /\ [][NextNode]_vars

(***************************************************************************)
(* The macros without an underscore, lines 217-233: with ENABLE_TIMING     *)
(* each is the macro or function with the underscore, without it each is   *)
(* ((void)0).                                                              *)
(***************************************************************************)
gttic(label) == IF ENABLE_TIMING THEN Gttic(label) ELSE UNCHANGED vars

gttoc(i) == IF ENABLE_TIMING THEN Gttoc(i) ELSE UNCHANGED vars

\* A faulty longtic: active in every build.
longtic_Always(label) == Longtic(label)

longtic(label) == IF ENABLE_TIMING THEN Longtic(label) ELSE UNCHANGED vars

longtoc(label) == IF ENABLE_TIMING THEN Longtoc(label) ELSE UNCHANGED vars

tictoc_finishedIteration ==
  IF ENABLE_TIMING THEN FinishedIteration ELSE UNCHANGED vars

tictoc_print == IF ENABLE_TIMING THEN TictocPrint ELSE UNCHANGED vars

tictoc_reset == IF ENABLE_TIMING THEN TictocReset ELSE UNCHANGED vars

\* A program that uses both families of macros at the call sites of one
\* label, built with or without ENABLE_TIMING.  It resets the tree when no
\* AutoTicToc is alive (design 5), and ends one iteration per tree.
InitToggle == TimingInit /\ VCInit /\ OpInit /\ ENABLE_TIMING \in BOOLEAN

NextToggle ==
  \/ Gttic("A")
  \/ \E i \in 1..Len(objs) : Gttoc(i)
  \/ ScopeExit
  \/ Longtic("A")
  \/ Longtoc("A")
  \/ ItValsOf(RootIdx) = <<>> /\ FinishedIteration
  \/ TictocPrint
  \/ objs = <<>> /\ TictocReset
  \/ gttic("A")
  \/ \E i \in 1..Len(objs) : gttoc(i)
  \/ longtic("A")
  \/ longtoc("A")
  \/ ItValsOf(RootIdx) = <<>> /\ tictoc_finishedIteration
  \/ tictoc_print
  \/ objs = <<>> /\ tictoc_reset

SpecToggle == InitToggle /\ [][NextToggle]_vars

(***************************************************************************)
(* The timing tree: properties.                                            *)
(***************************************************************************)
NodeIds == 1..Len(nodes)

Stats(nd) == <<nd.n, nd.t, nd.tWall, nd.t2, nd.tIt>>

\* C1: from a fresh tree, while the tic's and toc's are well nested, every
\* open tic's node is the child, keyed by the tic's id, of the cursor the tic
\* found (the root for the outermost, the node of the enclosing open tic
\* otherwise), the cursor is the node of the innermost open tic, and with no
\* tic open (a balanced sequence) the cursor is the root: so a toc has taken
\* the cursor to the parent of the node its tic opened.
C1_CursorFollowsNesting ==
  wellNested =>
    /\ timingCurrent = (IF openStack = <<>> THEN RootIdx
                        ELSE Last(openStack).node)
    /\ \A i \in 1..Len(openStack) :
         LET e == openStack[i]
         IN  /\ e.prev = (IF i = 1 THEN RootIdx ELSE openStack[i - 1].node)
             /\ e.node \in NodeIds
             /\ e.node # e.prev
             /\ nodes[e.node].parent = e.prev
             /\ nodes[e.node].myId = e.id
             /\ HasChild(nodes, e.prev, e.id)
             /\ ChildOf(nodes, e.prev, e.id) = e.node

\* C1 witness: two nested regions were opened and closed in order, and the
\* cursor is back at the root.
C1_Witness ==
  /\ wellNested
  /\ ticCount = 2
  /\ openStack = <<>>
  /\ timingCurrent = RootIdx
  /\ \E c \in NodeIds : /\ nodes[c].parent \notin {NoNode, RootIdx}
                        /\ nodes[c].n = 1
                        /\ nodes[nodes[c].parent].n = 1

\* C2: a scoped timer calls ticInternal once, at construction; while stop()
\* was not called it has not called tocInternal, after one stop() it has
\* called it once; and when it is destroyed after at most one stop(), the
\* destructor called tocInternal exactly if stop() never was, so that the
\* object called tocInternal once over its lifetime.
C2_ScopedTimerClosesOnce ==
  /\ \A i \in 1..Len(objs) :
       /\ objs[i].tics = 1
       /\ objs[i].stops = 0 => objs[i].tocs = 0 /\ objs[i].obj.isSet_
       /\ objs[i].stops = 1 => objs[i].tocs = 1 /\ ~objs[i].obj.isSet_
  /\ lastDead.live /\ lastDead.stops <= 1 =>
       /\ lastDead.tics = 1
       /\ lastDead.tocs = 1
       /\ lastDead.dtorTocs = (IF lastDead.stops = 0 THEN 1 ELSE 0)

\* C2 witness: an AutoTicToc was destroyed after one stop(), with another
\* still alive that was never stopped.
C2_Witness ==
  /\ lastDead.live
  /\ lastDead.stops = 1
  /\ lastDead.tocs = 1
  /\ \E i \in 1..Len(objs) : objs[i].stops = 0

\* C3, as claimed: for any number k >= 1 of stop() calls on one AutoTicToc,
\* alive or destroyed since, the object has called tocInternal once.
C3_StopIsGuarded ==
  /\ \A i \in 1..Len(objs) : objs[i].stops >= 1 => objs[i].tocs = 1
  /\ lastDead.live /\ lastDead.stops >= 1 => lastDead.tocs = 1

\* C3 witness of the failing case: stop() was called twice on an AutoTicToc
\* opened inside another region, and tocInternal ran twice: the enclosing
\* region was recorded too, and the cursor is two levels up.
C3_DoubleStop ==
  /\ lastDead.live
  /\ lastDead.stops = 2
  /\ lastDead.tocs = 2
  /\ timingCurrent = RootIdx
  /\ \E c \in NodeIds : nodes[c].parent \notin {NoNode, RootIdx} /\ nodes[c].n = 1

\* C4: aggregation is path-sensitive.  In every state a node is the child,
\* under its own id, of its parent and of no other node, and no two nodes
\* share parent and id; a tic takes the cursor to a node whose parent is the
\* cursor it found, so that one id opened under two parents gives two nodes;
\* and a step changes the call count and the cumulative times of no node
\* but the one the cursor was at.
C4_TreeShape ==
  /\ \A c \in NodeIds \ {RootIdx} :
       /\ nodes[c].parent \in NodeIds
       /\ HasChild(nodes, nodes[c].parent, nodes[c].myId)
       /\ ChildOf(nodes, nodes[c].parent, nodes[c].myId) = c
  /\ \A p \in NodeIds : \A k \in 1..Len(nodes[p].children) :
       /\ nodes[p].children[k][2] \in NodeIds
       /\ nodes[nodes[p].children[k][2]].parent = p
       /\ nodes[nodes[p].children[k][2]].myId = nodes[p].children[k][1]
  /\ \A c, d \in NodeIds \ {RootIdx} :
       nodes[c].parent = nodes[d].parent /\ nodes[c].myId = nodes[d].myId
         => c = d

C4_Step ==
  /\ ticCount' = ticCount + 1 =>
       /\ timingCurrent' \in 1..Len(nodes')
       /\ nodes'[timingCurrent'].parent = timingCurrent
  /\ \A d \in NodeIds :
       d # timingCurrent => Stats(nodes'[d]) = Stats(nodes[d])

C4_PathSensitive == [](C4_TreeShape) /\ [][C4_Step]_vars

\* C4 witness: two nodes with one id under two sibling regions, one recorded
\* into and the other not.
C4_Witness ==
  \E c, d \in NodeIds \ {RootIdx} :
    /\ nodes[c].myId = nodes[d].myId
    /\ nodes[c].parent # nodes[d].parent
    /\ nodes[c].parent # RootIdx
    /\ nodes[d].parent # RootIdx
    /\ nodes[nodes[c].parent].parent = RootIdx
    /\ nodes[nodes[d].parent].parent = RootIdx
    /\ nodes[c].n = 1
    /\ nodes[c].t > 0
    /\ nodes[d].n = 0
    /\ nodes[d].t = 0

\* C5: a (parent, id) pair has one node, whose call count is the number of
\* times the region was closed and whose cumulative times are the sum of
\* the elapsed times of those closings.
C5_Aggregation ==
  /\ Len(hist) = Len(nodes)
  /\ \A c, d \in NodeIds \ {RootIdx} :
       nodes[c].parent = nodes[d].parent /\ nodes[c].myId = nodes[d].myId
         => c = d
  /\ \A c \in NodeIds :
       /\ nodes[c].n = Len(hist[c])
       /\ nodes[c].t = SumSeq(hist[c])
       /\ nodes[c].tWall = SumSeq(hist[c])

\* C5 witness: one region closed twice, after different elapsed times.
C5_Witness ==
  \E c \in NodeIds \ {RootIdx} :
    /\ nodes[c].n = 2
    /\ Len(hist[c]) = 2
    /\ hist[c][1] # hist[c][2]
    /\ nodes[c].t = hist[c][1] + hist[c][2]

(***************************************************************************)
(* VectorConfig: properties.                                               *)
(***************************************************************************)
\* C6, as claimed: insert(name, val) replaces any entry for name: after it
\* get(name) gives val, and every other key holds what it held.
C6_InsertStep ==
  \A name \in Keys, val \in Vectors :
    InsertA(name, val) =>
      /\ get(cfgA', name) = Value(val)
      /\ \A k \in DOMAIN cfgA \ {name} : k \in DOMAIN cfgA' /\ cfgA'[k] = cfgA[k]

C6_InsertReplaces == [][C6_InsertStep]_vars

\* C6 witness of the failing case: a key holds a vector, and an insert of
\* another vector under that key is possible.
C6_KeyPresent ==
  /\ "x" \in DOMAIN cfgA
  /\ cfgA["x"] = <<0>>
  /\ insert(cfgA, "x", <<1>>) = cfgA

\* C7: get(name) throws std::invalid_argument exactly when name is absent,
\* and gives the stored vector otherwise; the map it was called on is the
\* map it leaves.
C7_GetFailsIffAbsent ==
  res.op = "get" =>
    /\ res.out.kind = "invalid_argument" <=> res.name \notin DOMAIN cfgA
    /\ res.name \notin DOMAIN cfgA => res.out = InvalidKey
    /\ res.name \in DOMAIN cfgA => res.out = Value(cfgA[res.name])

\* C7 witness: get threw for an absent key while another key was present.
C7_Witness ==
  /\ res.op = "get"
  /\ res.out = InvalidKey
  /\ res.name \notin DOMAIN cfgA
  /\ \E k \in DOMAIN cfgA : cfgA[k] # <<>>

\* C8: a + b and a - b (on vectors of equal length): when b holds every key
\* of a the result has the keys of a, with a[k] + b[k] (a[k] - b[k]) under
\* k, whatever other keys b holds; when b lacks a key of a the operation
\* throws get's std::invalid_argument and gives no result.
C8_PlusMinus ==
  res.op \in {"plus", "minus"} =>
    IF DOMAIN cfgA \subseteq DOMAIN cfgB
    THEN /\ res.out.kind = "value"
         /\ DOMAIN res.out.val = DOMAIN cfgA
         /\ \A k \in DOMAIN cfgA :
              res.out.val[k] = IF res.op = "plus"
                               THEN VecAdd(cfgA[k], cfgB[k])
                               ELSE VecSub(cfgA[k], cfgB[k])
    ELSE res.out = InvalidKey

\* C8 witness: a sum of two non-zero vectors, with a key only b holds.
C8_Witness ==
  /\ res.op = "plus"
  /\ res.out.kind = "value"
  /\ DOMAIN cfgB \ DOMAIN cfgA # {}
  /\ \E k \in DOMAIN cfgA : cfgA[k] = <<1, 0>> /\ cfgB[k] = <<1, 1>>

\* C9: exmap(delta) throws the mismatched-dimensions error when a key of
\* both maps holds vectors of different lengths; otherwise its result has
\* the keys of the receiver, with receiver[k] + delta[k] under a key delta
\* holds and receiver[k] under a key it lacks.  The receiver is the same
\* before and after.
C9_Exmap ==
  res.op = "exmap" =>
    IF \E k \in DOMAIN cfgA \cap DOMAIN cfgB : Len(cfgA[k]) # Len(cfgB[k])
    THEN res.out = DimensionMismatch
    ELSE /\ res.out.kind = "value"
         /\ DOMAIN res.out.val = DOMAIN cfgA
         /\ \A k \in DOMAIN cfgA :
              res.out.val[k] = IF k \in DOMAIN cfgB
                               THEN VecAdd(cfgA[k], cfgB[k])
                               ELSE cfgA[k]

\* C9 witness: a delta with one of the receiver's two keys.
C9_Witness ==
  /\ res.op = "exmap"
  /\ res.out.kind = "value"
  /\ DOMAIN cfgA = Keys
  /\ \E k \in Keys : /\ DOMAIN cfgB = {k}
                     /\ cfgB[k] = <<1>>
                     /\ res.out.val[k] # cfgA[k]
                     /\ \A j \in Keys \ {k} : res.out.val[j] = cfgA[j] /\ cfgA[j] # <<>>

\* C10, as claimed: equals(other, tol) gives a boolean for every pair of
\* maps: false when the numbers of keys differ, true only when they agree
\* and every key of the receiver has a value in other within tol, and false
\* for two maps of one size with different keys.
C10_EqualsTotal ==
  res.op = "equals" =>
    /\ res.out.kind = "value"
    /\ res.out.val \in BOOLEAN
    /\ size(cfgA) # size(cfgB) => res.out.val = FALSE
    /\ res.out.val = TRUE =>
         /\ size(cfgA) = size(cfgB)
         /\ \A k \in DOMAIN cfgA :
              /\ k \in DOMAIN cfgB
              /\ equal_with_abs_tol(cfgB[k], cfgA[k], res.tol)
    /\ size(cfgA) = size(cfgB) /\ DOMAIN cfgA # DOMAIN cfgB
         => res.out.val = FALSE

\* C10 witness of the failing case: two maps of one key each, under
\* different keys, and equals threw.
C10_DifferentKeys ==
  /\ res.op = "equals"
  /\ size(cfgA) = size(cfgB)
  /\ DOMAIN cfgA # DOMAIN cfgB
  /\ res.out = InvalidKey

(***************************************************************************)
(* The wider interface: properties.                                        *)
(***************************************************************************)
RECURSIVE MaxSeq(_)
MaxSeq(s) == IF Len(s) = 1 THEN s[1] ELSE Max2(s[1], MaxSeq(Tail(s)))

RECURSIVE MinSeq(_)
MinSeq(s) == IF Len(s) = 1 THEN s[1] ELSE Min2(s[1], MinSeq(Tail(s)))

\* C11: a boundary reaches every node of the tree.  In every state each
\* node's accumulator tIt is the sum of what was recorded into the node
\* since its last boundary, however many times the region was entered, and
\* a node that has been through a boundary holds in tMax and tMin the
\* largest and the smallest accumulator it had at its boundaries; and a
\* boundary leaves every accumulator of the tree zero.
C11_Extrema ==
  \A c \in NodeIds :
    /\ nodes[c].tIt = IterAccum(c)
    /\ ItValsOf(c) # <<>> =>
         /\ nodes[c].tMax = MaxSeq(ItValsOf(c))
         /\ nodes[c].tMin = MinSeq(ItValsOf(c))

C11_Boundary ==
  itVals' # itVals =>
    /\ Len(itVals') = Len(nodes')
    /\ \A c \in 1..Len(nodes') : nodes'[c].tIt = 0 /\ itVals'[c] # <<>>

C11_IterationExtrema == [](C11_Extrema) /\ [][C11_Boundary]_vars

\* C11 witness: a node below the root was entered twice in one iteration
\* and not at all in the next: its accumulators at the two boundaries were
\* the sum of the two entries and zero.
C11_Witness ==
  \E c \in NodeIds \ {RootIdx} :
    /\ ItValsOf(c) = <<2, 0>>
    /\ hist[c] = <<1, 1>>
    /\ nodes[c].tMax = 2
    /\ nodes[c].tMin = 0
    /\ nodes[c].tIt = 0

\* C12: tictoc_reset_(), called in any state (with no region open or with
\* some), leaves a tree of one node, the root: its label is "Total", its
\* call count and its cumulative times are zero, it has no children, and
\* the cursor is that root.
C12_ResetStep ==
  TictocReset =>
    /\ Len(nodes') = 1
    /\ nodes'[RootIdx].label = "Total"
    /\ nodes'[RootIdx].n = 0
    /\ nodes'[RootIdx].t = 0
    /\ nodes'[RootIdx].tWall = 0
    /\ nodes'[RootIdx].children = <<>>
    /\ nodes'[RootIdx].parent = NoNode
    /\ timingCurrent' = RootIdx

C12_ResetGivesFreshRoot == [][C12_ResetStep]_vars

\* C12 witness: a reset with no region open discarded two nodes that held
\* recorded time, and the tree is the new root.
C12_Witness ==
  /\ last.op = "tictoc_reset_"
  /\ last.discarded >= 2
  /\ last.lost > 0
  /\ wellNested
  /\ Len(nodes) = 1
  /\ nodes[RootIdx].n = 0
  /\ timingCurrent = RootIdx

\* The cumulative times of the children of node c, added up.
RECURSIVE ChildrenTime(_, _)
ChildrenTime(ch, k) ==
  IF k > Len(ch) THEN 0 ELSE nodes[ch[k][2]].t + ChildrenTime(ch, k + 1)

RECURSIVE ChildrenWall(_, _)
ChildrenWall(ch, k) ==
  IF k > Len(ch) THEN 0 ELSE nodes[ch[k][2]].tWall + ChildrenWall(ch, k + 1)

\* The nodes whose region is open.
OpenNodes == {openStack[i].node : i \in 1..Len(openStack)}

\* C13, as claimed: while the tic's and toc's are well nested, in every
\* state and for every node, the root included, the cumulative times of
\* its children add up to no more than its own.
C13_ChildrenWithinParent ==
  wellNested =>
    \A c \in NodeIds :
      /\ ChildrenTime(nodes[c].children, 1) <= nodes[c].t
      /\ ChildrenWall(nodes[c].children, 1) <= nodes[c].tWall

\* C13, amended: while the tic's and toc's are well nested, for every node
\* but the root whose region is not open, the cumulative times of its
\* children add up to no more than its own.  (Time is recorded by a toc:
\* the root is never closed, and an open node has not yet recorded the
\* interval its children ran in.)
C13_ChildrenWithinClosedParent ==
  wellNested =>
    \A c \in NodeIds \ ({RootIdx} \cup OpenNodes) :
      /\ ChildrenTime(nodes[c].children, 1) <= nodes[c].t
      /\ ChildrenWall(nodes[c].children, 1) <= nodes[c].tWall

\* C13 witness: a closed region with two children, one of which recorded
\* time.
C13_Witness ==
  /\ wellNested
  /\ \E c \in NodeIds \ ({RootIdx} \cup OpenNodes) :
       /\ Len(nodes[c].children) = 2
       /\ nodes[c].n >= 1
       /\ ChildrenTime(nodes[c].children, 1) > 0
       /\ ChildrenTime(nodes[c].children, 1) <= nodes[c].t

\* C14: in a build without ENABLE_TIMING a step of gttic, gttoc, longtic,
\* longtoc, tictoc_finishedIteration, tictoc_print or tictoc_reset leaves
\* the tree, the cursor and the label registry as they were; in a build
\* with it each of them is a step of the macro with the underscore, and the
\* other way round; and in both builds the macros with the underscore act:
\* a tic moves the cursor to a child, a toc records into the cursor's node
\* and moves the cursor to its parent, a boundary zeroes the accumulators
\* and a reset leaves the root alone.
C14_Disabled ==
  ~ENABLE_TIMING =>
    ((\/ \E label \in Labels : gttic(label) \/ longtic(label) \/ longtoc(label)
      \/ \E i \in 1..Len(objs) : gttoc(i)
      \/ tictoc_finishedIteration
      \/ tictoc_print
      \/ tictoc_reset)
       => UNCHANGED <<labelIds, nodes, timingCurrent>>)

C14_Enabled ==
  ENABLE_TIMING =>
    /\ \A label \in Labels :
         /\ gttic(label) <=> Gttic(label)
         /\ longtic(label) <=> Longtic(label)
         /\ longtoc(label) <=> Longtoc(label)
    /\ \A i \in 1..Len(objs) : gttoc(i) <=> Gttoc(i)
    /\ tictoc_finishedIteration <=> FinishedIteration
    /\ tictoc_print <=> TictocPrint
    /\ tictoc_reset <=> TictocReset

C14_UnderscoreActs ==
  /\ \A label \in Labels :
       /\ Gttic(label) \/ Longtic(label) =>
            /\ timingCurrent' \in 1..Len(nodes')
            /\ timingCurrent' # timingCurrent
            /\ nodes'[timingCurrent'].parent = timingCurrent
       /\ Longtoc(label) =>
            /\ timingCurrent' = nodes[timingCurrent].parent
            /\ nodes'[timingCurrent].n = nodes[timingCurrent].n + 1
  /\ \A i \in 1..Len(objs) :
       Gttoc(i) =>
         /\ timingCurrent' = nodes[timingCurrent].parent
         /\ nodes'[timingCurrent].n = nodes[timingCurrent].n + 1
  /\ FinishedIteration => \A c \in 1..Len(nodes') : nodes'[c].tIt = 0
  /\ TictocReset => Len(nodes') = 1 /\ timingCurrent' = RootIdx

C14_Step ==
  /\ ENABLE_TIMING' = ENABLE_TIMING
  /\ C14_Disabled
  /\ C14_Enabled
  /\ C14_UnderscoreActs

C16_ReportStep ==
  TictocPrint \/ TictocPrint2 =>
    /\ Len(nodes') = Len(nodes)
    /\ \A c \in NodeIds :
         /\ Stats(nodes'[c]) = Stats(nodes[c])
         /\ nodes'[c].tMax = nodes[c].tMax
         /\ nodes'[c].tMin = nodes[c].tMin
         /\ nodes'[c].children = nodes[c].children
         /\ nodes'[c].parent = nodes[c].parent
    /\ timingCurrent' = timingCurrent

C16_ReportIsPureRead == [][C16_ReportStep]_vars

\* C16 witness: print2 wrote a line for each of three nodes, one of them
\* with recorded time and a recorded maximum, with a region open.
C16_Witness ==
  /\ last.op = "tictoc_print2_"
  /\ last.lines = Len(nodes)
  /\ Len(tictoc_print_.out) = Len(nodes)
  /\ Len(nodes) = 3
  /\ timingCurrent # RootIdx
  /\ \E c \in NodeIds : nodes[c].n = 1 /\ nodes[c].t = 1 /\ nodes[c].tMax = 1

\* Every label a call site can name, and the root's.
AllLabels == Labels \cup {"Total"}

\* C19, in every state: two registered labels with the same id are the same
\* label.
C19_IdsDistinct ==
  \A l1, l2 \in AllLabels :
    (/\ IsRegistered(labelIds, l1)
     /\ IsRegistered(labelIds, l2)
     /\ getTicTocID(labelIds, l1) = getTicTocID(labelIds, l2)) => l1 = l2

\* C19, in every step (tic, toc, lookup, end of iteration, report, reset):
\* a registered label stays registered under the id it has, a later
\* getTicTocID returns that id, and a label that is new to the registry
\* gets the next sequential id, the number of labels registered before it.
C19_RegistryStep ==
  /\ \A l \in AllLabels :
       IsRegistered(labelIds, l) =>
         /\ IsRegistered(labelIds', l)
         /\ getTicTocID(labelIds', l) = getTicTocID(labelIds, l)
         /\ RegisterLabel(labelIds, l) = labelIds
  /\ \A l \in AllLabels :
       (~IsRegistered(labelIds, l) /\ IsRegistered(labelIds', l)) =>
         /\ getTicTocID(labelIds', l) = Len(labelIds)
         /\ Len(labelIds') = Len(labelIds) + 1
  /\ TictocReset => labelIds' = labelIds

\* C19: the label registry is append-only and stable across every sequence
\* of tic, toc, lookup, finishedIteration, print and tictoc_reset_.
C19_RegistryAppendOnly == [](C19_IdsDistinct) /\ [][C19_RegistryStep]_vars

\* C19 witness: "B" was registered before "A", a tree with nodes was
\* discarded by tictoc_reset_, and in the new tree the labels have the ids
\* they were given.
C19_Witness ==
  /\ last.op = "tictoc_reset_"
  /\ last.discarded > 0
  /\ Len(nodes) = 1
  /\ labelIds = <<"Total", "B", "A">>
  /\ getTicTocID(labelIds, "B") = 1
  /\ getTicTocID(labelIds, "A") = 2
  /\ nodes[RootIdx].myId = getTicTocID(labelIds, "Total")

\* The statistics of a node: what the reports show of it.
Statistics(nd) ==
  [t |-> nd.t, tWall |-> nd.tWall, t2 |-> nd.t2, tIt |-> nd.tIt,
   tMax |-> nd.tMax, tMin |-> nd.tMin, n |-> nd.n]

\* C20, one lookup: tictoc_getNode(variable, label) leaves the cursor where
\* it is and every existing node's statistics as they are; variable is the
\* child of the cursor a tic of the label would enter; if the cursor has
\* that child the tree is unchanged, and if it has not the tree has one node
\* more, a child of the cursor with the label's id and zero statistics.
C20_GetNodeStep ==
  \A label \in Labels :
    GetNode(label) =>
      LET id == getTicTocID(labelIds, label)
          v  == last'.variable
      IN  /\ timingCurrent' = timingCurrent
          /\ \A c \in 1..Len(nodes) :
               Statistics(nodes'[c]) = Statistics(nodes[c])
          /\ v = ticInternal(nodes, timingCurrent, id, label).cur
          /\ nodes'[v].parent = timingCurrent
          /\ nodes'[v].myId = id
          /\ HasChild(nodes, timingCurrent, id) =>
               /\ nodes' = nodes
               /\ v = ChildOf(nodes, timingCurrent, id)
          /\ ~HasChild(nodes, timingCurrent, id) =>
               /\ Len(nodes') = Len(nodes) + 1
               /\ v = Len(nodes')
               /\ Statistics(nodes'[v]) = Statistics(TimingOutline(label, id))
               /\ nodes'[v].label = label
               /\ nodes'[v].children = <<>>
               /\ HasChild(nodes', timingCurrent, id)

\* C20: tictoc_getNode never moves the cursor and never changes the
\* statistics of an existing node, and it adds a zero-statistics child under
\* the cursor when the cursor has no child with the label's id.
C20_GetNodeLazyChild == [][C20_GetNodeStep]_vars

\* C20 witness: under a cursor that is not the root, in a tree that holds
\* recorded time, the last node was made by a lookup alone: it was returned
\* by tictoc_getNode, it was never entered, and it has zero statistics.
C20_Witness ==
  /\ last.op = "tictoc_getNode"
  /\ last.variable = Len(nodes)
  /\ last.variable \notin OpenNodes
  /\ timingCurrent # RootIdx
  /\ nodes[last.variable].parent = timingCurrent
  /\ Statistics(nodes[last.variable]) = Statistics(TimingOutline("A", 0))
  /\ hist[last.variable] = <<>>
  /\ \E c \in 1..Len(nodes) : nodes[c].t > 0

(***************************************************************************)
(* VectorConfig: properties of scale, add and exmap with a flat Vector.    *)
(***************************************************************************)
\* C15: scale(s) gives a map with the keys of the receiver in which get(k)
\* is s times the receiver's get(k), entry by entry, for every key k and
\* factor s; the receiver is what it was; and operator* gives the same map.
C15_ScaleStep ==
  \A s \in Scalars :
    ScaleA(s) =>
      /\ cfgA' = cfgA
      /\ Times(cfgA, s) = res'.out
      /\ DOMAIN res'.out = DOMAIN cfgA
      /\ \A k \in DOMAIN cfgA :
           /\ get(res'.out, k).kind = "value"
           /\ Len(get(res'.out, k).val) = Len(cfgA[k])
           /\ \A i \in 1..Len(cfgA[k]) :
                get(res'.out, k).val[i] = get(cfgA, k).val[i] * s

C15_ScaleLinear == [][C15_ScaleStep]_vars

\* C15 witness: a map of two keys was scaled by 2 and by -1.
C15_Witness ==
  /\ res.op = "scale"
  /\ res.s \in {2, -1}
  /\ DOMAIN cfgA = Keys
  /\ cfgA["x"] = <<1, 0>>
  /\ cfgA["y"] = <<1>>
  /\ res.out["x"] = <<res.s, 0>>
  /\ res.out["y"] = <<res.s>>

\* The entries of the flat vector before the slice of key k, when the keys
\* are taken in the order names: the lengths of the vectors stored under the
\* keys before k.
RECURSIVE SliceStart(_, _, _)
SliceStart(c, names, k) ==
  IF names = <<>> \/ Head(names) = k THEN 0
  ELSE Len(c[Head(names)]) + SliceStart(c, Tail(names), k)

\* exmap(flat) under the order names: every key of the receiver holds its
\* vector plus the slice of flat that starts after the slices of the keys
\* before it and is as long as the vector.
SlicedBy(names) ==
  /\ DOMAIN res.out = DOMAIN cfgA
  /\ \A k \in DOMAIN cfgA :
       res.out[k] = VecAdd(cfgA[k],
                           SubSeq(res.delta, SliceStart(cfgA, names, k) + 1,
                                  SliceStart(cfgA, names, k) + Len(cfgA[k])))

\* C17, as claimed: exmap(flat) takes the keys in the order they were
\* inserted in, whatever the order of their names.
C17_InsertionOrder == res.op = "exmap" => SlicedBy(orderA)

\* C17 witness of the failing case: "y" was inserted before "x", and the
\* first entry of the flat vector went to "x": the keys were taken in the
\* order get_names() gives them in.
C17_NameOrder ==
  /\ res.op = "exmap"
  /\ orderA = <<"y", "x">>
  /\ get_names(cfgA) = <<"x", "y">>
  /\ cfgA["x"] = <<0>>
  /\ cfgA["y"] = <<0, 0>>
  /\ res.delta = <<1, 0, 0>>
  /\ res.out["x"] = <<1>>
  /\ res.out["y"] = <<0, 0>>
  /\ SlicedBy(get_names(cfgA))

\* w is the elementwise sum of v with a.
ElementwiseSum(v, a, w) ==
  /\ Len(w) = Len(v)
  /\ \A i \in 1..Len(v) : w[i] = v[i] + a[i]

\* The other keys and their vectors are as they were before add(j, a).
OtherKeysUnchanged(j) ==
  /\ DOMAIN cfgA' = DOMAIN cfgA \cup {j}
  /\ \A k \in DOMAIN cfgA \ {j} : cfgA'[k] = cfgA[k]

\* C18 as stated: add(key, a) on an absent key leaves a under key; on a
\* present key, a stored empty vector included, the stored vector becomes its
\* elementwise sum with a; all other keys are unchanged.
C18_AddStep ==
  \A j \in Keys, a \in Vectors :
    AddA(j, a) =>
      /\ j \notin DOMAIN cfgA => cfgA'[j] = a
      /\ j \in DOMAIN cfgA => ElementwiseSum(cfgA[j], a, cfgA'[j])
      /\ OtherKeysUnchanged(j)

C18_AddSumsEveryStored == [][C18_AddStep]_vars

\* C18, amended: add(key, a) leaves a under key when key is absent or the
\* vector stored under it is empty; a stored non-empty vector, of the size of
\* a, becomes its elementwise sum with a; all other keys are unchanged.
C18_AddStepEmptyAssigned ==
  \A j \in Keys, a \in Vectors :
    AddA(j, a) =>
      /\ (j \notin DOMAIN cfgA \/ cfgA[j] = <<>>) => cfgA'[j] = a
      /\ (j \in DOMAIN cfgA /\ cfgA[j] # <<>>) =>
           /\ Len(a) = Len(cfgA[j])
           /\ ElementwiseSum(cfgA[j], a, cfgA'[j])
      /\ OtherKeysUnchanged(j)

C18_AddAssignsIntoEmpty == [][C18_AddStepEmptyAssigned]_vars

\* C18 witness: add was called on a key holding an empty vector with a
\* non-empty a, and the key now holds a, while another key kept its vector.
C18_Witness ==
  /\ res.op = "add"
  /\ res.had
  /\ res.old = <<>>
  /\ res.a = <<1, 0>>
  /\ cfgA[res.j] = <<1, 0>>
  /\ \E k \in DOMAIN cfgA \ {res.j} : cfgA[k] # <<>>

=============================================================================
